---- MODULE Spec2Model ----
(***************************************************************************)
(* Model of src/distributed/tcp_blocking.py: the blocking helpers send_all *)
(* and recv_all, and the length-prefixed channels TCPServer and TCPClient. *)
(*                                                                         *)
(* A stream socket is modelled by what the code can observe of it: the     *)
(* bytes the transport has accepted on each direction of a connection      *)
(* (wire), how many of them the reader has taken (rpos), and whether each  *)
(* socket object is new, connected or closed.  A connected socket whose    *)
(* peer was closed with bytes it had not read is reset: its next call      *)
(* raises the reset once.  A socket closed while a thread waits inside a   *)
(* call on it is closing: the descriptor is gone, and the kernel keeps the *)
(* socket open until that call returns.  sock.send may accept any          *)
(* positive number of the offered bytes and sock.recv may deliver any      *)
(* positive number of the available ones, up to the number requested; the  *)
(* transport may also cap what it moves per call (mtu).                    *)
(***************************************************************************)
EXTENDS Integers, Sequences, FiniteSets, TLC

VARIABLES
    prefix_size,   \* [endpoint -> self.prefix_size]
    lsock,         \* TCPServer.sock, the listening socket: new, bound, listening,
                   \* closing, closed
    pending,       \* connections completed by the kernel and not yet accepted
    conn,          \* TCPServer.conn: "None" or the accepted connection (named by its client)
    addr,          \* TCPServer.addr: "None" or the accepted peer
    acc,           \* what sock.accept() returned to the thread inside register and
                   \* is not yet stored in self.conn, self.addr: "None" or the connection
    connSock,      \* state of the socket object sock.accept() returned: none,
                   \* connected, reset, closing, closed
    csock,         \* [client -> state of TCPClient.sock]: new, connected, reset,
                   \* closing, closed
    released,      \* [socket -> number of times its descriptor was released]
    regPc,         \* position of the thread inside TCPServer.register: idle, listen,
                   \* accept, store
    cPc,           \* position of the thread inside TCPServer.close: idle, sock
    wire,          \* [channel -> bytes accepted by the transport, in order]
    rpos,          \* [channel -> number of bytes of wire already delivered to the reader]
    sPc,           \* [thread -> idle | loop]: position inside send / send_all
    sData,         \* [thread -> the buffer given to send_all (prefix + data)]
    sMsg,          \* [thread -> the data argument of its last send call]
    total_sent,    \* [thread -> send_all's total_sent]
    rPc,           \* [endpoint -> idle | prefix | payload]: position inside recv
    size,          \* [endpoint -> the size argument of the running recv_all]
    chunks,        \* [endpoint -> the bytes of recv_all's chunks, joined]
    sentLog,       \* [endpoint -> the data of every send that returned, in order]
    recvLog,       \* [endpoint -> the buffers returned by recv, in order]
    nSends,        \* number of send calls made so far (bounds the run)
    mtu,           \* the most bytes the transport moves in one sock.send or sock.recv
    ret            \* what the step just taken returned to its caller, if a call ended

vars == << prefix_size, lsock, pending, conn, addr, acc, connSock, csock, released,
           regPc, cPc, wire, rpos, sPc, sData, sMsg, total_sent, rPc, size, chunks,
           sentLog, recvLog, nSends, mtu, ret >>

sockVars == << lsock, pending, conn, addr, acc, connSock, csock, released, regPc,
              cPc >>
\* the sockets but for the state of the connected ones
listenVars == << lsock, pending, conn, addr, acc, released, regPc, cPc >>
sendVars == << sPc, sData, sMsg, total_sent, sentLog, nSends >>
recvVars == << rPc, size, chunks, recvLog >>

(***************************************************************************)
(* Bounds of the model.                                                    *)
(***************************************************************************)
MaxLen == 2        \* longest payload drawn for an ordinary send
MaxSends == 2      \* send calls per run

(***************************************************************************)
(* Objects.                                                                *)
(***************************************************************************)
Clients == {"client", "client2"}          \* TCPClient instances
Endpoints == {"server"} \cup Clients      \* the TCPServer and the TCPClients
Threads == Endpoints \cup {"clientB"}     \* clientB: a second thread using "client"
Owner(t) == IF t = "clientB" THEN "client" ELSE t
Widths == 1..8
Dirs == {"up", "down"}                    \* up: client to server; down: server to client
Channels == Clients \X Dirs
Sockets == {"lsock", "conn"} \cup Clients

Min(a, b) == IF a < b THEN a ELSE b

\* The payload of length n used as input: bytes 1, 2, 3, ... (mod 256).
Sample(n) == [i \in 1..n |-> i % 256]
Msgs == {Sample(n) : n \in 0..MaxLen}

(***************************************************************************)
(* int.to_bytes(length, 'big') and int.from_bytes(raw, 'big').             *)
(***************************************************************************)
RECURSIVE Quot(_, _)
\* n with its w low-order bytes shifted out
Quot(n, w) == IF w = 0 THEN n ELSE Quot(n \div 256, w - 1)

\* mutant: a length check that lets 256^w through
Fits_upto(n, w) == n = 0 \/ Quot(n - 1, w) = 0

\* n.to_bytes(w, 'big') raises OverflowError unless n fits in w bytes
Fits(n, w) == Quot(n, w) = 0

RECURSIVE to_bytes_little(_, _)
\* mutant: n.to_bytes(w, 'little')
to_bytes_little(n, w) == IF w = 0 THEN << >>
                         ELSE << n % 256 >> \o to_bytes_little(n \div 256, w - 1)

RECURSIVE to_bytes(_, _)
\* n.to_bytes(w, 'big'), most significant byte first, for an n that fits
to_bytes(n, w) == IF w = 0 THEN << >>
                  ELSE Append(to_bytes(n \div 256, w - 1), n % 256)

\* Python's integers are unbounded and TLC's are 32-bit: a decoded length of
\* Beyond or more is kept as Beyond, which is more than any stream of the model
\* ever holds, so a read of that many bytes behaves as the exact one would
Beyond == 256 * 256 * 256 * 64

RECURSIVE from_bytes(_)
\* int.from_bytes(b, 'big')
from_bytes(b) ==
    IF b = << >> THEN 0
    ELSE LET hi == from_bytes(SubSeq(b, 1, Len(b) - 1))
         IN  IF hi >= Beyond \div 256 THEN Beyond ELSE hi * 256 + b[Len(b)]

\* mutant: a prefix that counts its own bytes as well as the data
Frame_inclusive(data, w) == to_bytes(Len(data) + w, w) \o data

\* prefix + data, the buffer send() gives to send_all
Frame(data, w) == to_bytes(Len(data), w) \o data

\* mutant: data[0:], the whole buffer offered again
Remaining_whole(data, sent) == data

\* data[total_sent:], the buffer send_all offers to sock.send
Remaining(data, sent) == SubSeq(data, sent + 1, Len(data))

\* mutant: sock.recv(2048), a full chunk asked for whatever is missing
ReadRequest_chunk(sz, bytes_recd) == 2048

\* mutant: size - bytes_recd, all that is missing asked for in one read
ReadRequest_all(sz, bytes_recd) == sz - bytes_recd

\* min(size - bytes_recd, 2048), the number of bytes recv_all asks sock.recv for
ReadRequest(sz, bytes_recd) == Min(sz - bytes_recd, 2048)

(***************************************************************************)
(* The sockets as the endpoints see them.                                  *)
(***************************************************************************)
backlog == 4       \* TCPServer.__init__'s default backlog

\* the connection whose server end sock.accept() has returned: the one in
\* self.conn, or the one the thread inside register is about to store there
ServerEnd == IF conn # "None" THEN conn ELSE acc

\* the socket an endpoint sends and receives on: self.conn or self.sock
SockState(e) ==
    IF e = "server" THEN (IF conn = "None" THEN "none" ELSE connSock) ELSE csock[e]

OutChan(e) == IF e = "server" THEN <<conn, "down">> ELSE <<e, "up">>
InChan(e)  == IF e = "server" THEN <<conn, "up">> ELSE <<e, "down">>

\* the other end of e's connection has been closed in the kernel (or reset
\* with its listener); a closing socket is still open there
PeerClosed(e) ==
    IF e = "server" THEN csock[conn] = "closed"
    ELSE IF ServerEnd = e THEN connSock = "closed" ELSE lsock = "closed"

Unread(ch) == SubSeq(wire[ch], rpos[ch] + 1, Len(wire[ch]))

\* the call `op` of `who` ended in this step: it returned (exc = "none") or raised
\* exc; `sock` is the state of the socket it used and `at` the position of the
\* call when its last step began
Ended(op, who, exc, sock, at) ==
    [op |-> op, who |-> who, exc |-> exc, sock |-> sock, at |-> at]
\* no call ended in this step
Running == Ended("none", "none", "none", "none", "none")

\* thread t is inside no call: every call blocks its thread until it ends, and
\* each object is driven by one thread, as in the module's own driver
Idle(t) ==
    /\ sPc[t] = "idle"
    /\ t \in Endpoints => rPc[t] = "idle"
    /\ t = "server" => (regPc = "idle" /\ cPc = "idle")

\* a thread of e is at sock.recv on an open socket: it may be inside the call
InRecv(e) == rPc[e] # "idle" /\ SockState(e) = "connected"

\* the thread inside register is at sock.accept on an open socket: it may be
\* inside the call
InAccept == regPc = "accept" /\ lsock = "listening"

\* the state of a socket once its peer's socket is closed in the kernel.  With
\* unread = TRUE the peer had bytes it never read (or never accepted the
\* connection) and answers with a reset: the next call on a connected socket
\* raises it, and a call waiting on a closing socket raises it at once
PeerGone(st, unread) ==
    IF ~unread THEN st
    ELSE CASE st = "connected" -> "reset"
           [] st = "closing" -> "closed"
           [] OTHER -> st

\* the state of the socket at the other end of e's connection ("none" while
\* the server has not accepted it)
PeerState(e) ==
    IF e = "server" THEN csock[conn]
    ELSE IF ServerEnd = e THEN connSock ELSE "none"

\* the socket of e is left in state st and the one at the other end in pst
SetSocks(e, st, pst) ==
    IF e = "server"
    THEN /\ connSock' = st
         /\ csock' = [csock EXCEPT ![conn] = pst]
    ELSE /\ csock' = [csock EXCEPT ![e] = st]
         /\ connSock' = IF ServerEnd = e THEN pst ELSE connSock

\* c waits in the listener's queue
Queued(c, q) == \E i \in DOMAIN q : q[i] = c

\* mutant: a close() that releases the descriptor whenever it is called
socket_close_again(st) ==
    [st |-> "closed", rel |-> 1, err |-> "none"]

(***************************************************************************)
(* socket.close(): the descriptor is released on the first call only, and  *)
(* a later call does nothing and raises nothing.                           *)
(***************************************************************************)
socket_close(st) ==
    [st |-> IF st = "closing" THEN "closing" ELSE "closed",
     rel |-> IF st \in {"closed", "closing"} THEN 0 ELSE 1,
     err |-> "none"]

\* the states close() may leave a socket in: a connected or listening socket
\* with a thread waiting inside a call on it (held) stays open in the kernel
CloseTo(st, held) ==
    IF held THEN {"closing", socket_close(st).st} ELSE {socket_close(st).st}

(***************************************************************************)
(* TCPServer.register: bind, listen, accept and the store of what accept   *)
(* returned, one step each.                                                *)
(***************************************************************************)
\* mutant: a register() that skips bind and listen on a listening socket and
\* goes on to accept
ServerBind_rearm(ok) ==
    /\ Idle("server")
    /\ IF lsock = "new" /\ ok
       THEN /\ lsock' = "bound"
            /\ regPc' = "listen"
            /\ ret' = Running
       ELSE IF lsock = "listening"
       THEN /\ regPc' = "accept"
            /\ ret' = Running
            /\ UNCHANGED lsock
       ELSE /\ ret' = Ended("register", "server", "OSError", lsock, "bind")
            /\ UNCHANGED << lsock, regPc >>
    /\ UNCHANGED << prefix_size, pending, conn, addr, acc, connSock, csock, released,
                    cPc, wire, rpos, mtu, sendVars, recvVars >>

\* self.sock.bind((host, port)): fails on a socket already bound or closed,
\* and when the address is not available (ok = FALSE)
ServerBind(ok) ==
    /\ Idle("server")
    /\ IF lsock = "new" /\ ok
       THEN /\ lsock' = "bound"
            /\ regPc' = "listen"
            /\ ret' = Running
       ELSE /\ ret' = Ended("register", "server", "OSError", lsock, "bind")
            /\ UNCHANGED << lsock, regPc >>
    /\ UNCHANGED << prefix_size, pending, conn, addr, acc, connSock, csock, released,
                    cPc, wire, rpos, mtu, sendVars, recvVars >>

\* self.sock.listen(self.backlog)
ServerListen ==
    /\ regPc = "listen"
    /\ IF lsock = "bound"
       THEN /\ lsock' = "listening"
            /\ regPc' = "accept"
            /\ ret' = Running
       ELSE /\ ret' = Ended("register", "server", "OSError", lsock, "listen")
            /\ regPc' = "idle"
            /\ UNCHANGED lsock
    /\ UNCHANGED << prefix_size, pending, conn, addr, acc, connSock, csock, released,
                    cPc, wire, rpos, mtu, sendVars, recvVars >>

\* self.conn, self.addr = self.sock.accept(), the call: it waits until a
\* connection is in the queue and takes it.  A listener closed while accept
\* waits on it still gives a connection, and is closed in the kernel when accept
\* returns: what is left in its queue is reset.  On a socket closed before the
\* call, accept raises
ServerAccept ==
    /\ regPc = "accept"
    /\ \/ /\ lsock \in {"listening", "closing"}
          /\ pending # << >>
          /\ acc' = Head(pending)
          /\ connSock' = "connected"
          /\ pending' = Tail(pending)
          /\ lsock' = IF lsock = "closing" THEN "closed" ELSE lsock
          /\ csock' = IF lsock = "closing"
                      THEN [c \in Clients |->
                               PeerGone(csock[c], Queued(c, Tail(pending)))]
                      ELSE csock
          /\ regPc' = "store"
          /\ ret' = Running
       \/ /\ lsock \notin {"listening", "closing"}
          /\ regPc' = "idle"
          /\ ret' = Ended("register", "server", "OSError", lsock, "accept")
          /\ UNCHANGED << acc, connSock, pending, lsock, csock >>
    /\ UNCHANGED << prefix_size, conn, addr, released, cPc, wire, rpos, mtu,
                    sendVars, recvVars >>

\* self.conn, self.addr = self.sock.accept(), the assignment: the thread stores
\* what accept returned, once it runs again; other threads run before it does
ServerStore ==
    /\ regPc = "store"
    /\ conn' = acc
    /\ addr' = acc
    /\ acc' = "None"
    /\ regPc' = "idle"
    /\ ret' = Ended("register", "server", "none", lsock, "accept")
    /\ UNCHANGED << prefix_size, lsock, pending, connSock, csock, released, cPc,
                    wire, rpos, mtu, sendVars, recvVars >>

\* TCPClient.register: self.sock.connect((host, port)); the kernel completes the
\* connection while the listener is open there and its queue has room
ClientRegister(c) ==
    /\ Idle(c)
    /\ IF csock[c] = "new" /\ lsock \in {"listening", "closing"}
       THEN /\ Len(pending) < backlog
            /\ csock' = [csock EXCEPT ![c] = "connected"]
            /\ pending' = Append(pending, c)
            /\ ret' = Ended("register", c, "none", csock[c], "connect")
       ELSE /\ ret' = Ended("register", c, "OSError", csock[c], "connect")
            /\ UNCHANGED << csock, pending >>
    /\ UNCHANGED << prefix_size, lsock, conn, addr, acc, connSock, released, regPc,
                    cPc, wire, rpos, mtu, sendVars, recvVars >>

(***************************************************************************)
(* close().  TCPServer.close is two socket calls, and other threads run    *)
(* between them.                                                           *)
(***************************************************************************)
\* mutant: a close() that forgets self.conn and goes on to the listening socket
ServerClose_listener ==
    /\ cPc = "idle"
    /\ cPc' = "sock"
    /\ ret' = Running
    /\ UNCHANGED << prefix_size, lsock, pending, conn, addr, acc, connSock, csock,
                    released, regPc, wire, rpos, mtu, sendVars, recvVars >>

\* mutant: self.conn.close() without the test of self.conn, which raises
\* AttributeError on None before the listening socket is closed
ServerClose_unguarded ==
    /\ cPc = "idle"
    /\ IF conn # "None"
       THEN \E st \in CloseTo(connSock, InRecv("server")) :
                /\ connSock' = st
                /\ csock' = IF st = "closed" /\ connSock \in {"connected", "reset"}
                            THEN [csock EXCEPT ![conn] =
                                     PeerGone(@, Unread(<<conn, "up">>) # << >>)]
                            ELSE csock
                /\ released' = [released EXCEPT
                                   !["conn"] = @ + socket_close(connSock).rel]
                /\ cPc' = "sock"
                /\ ret' = Running
       ELSE /\ ret' = Ended("close", "server", "AttributeError", lsock, "close")
            /\ UNCHANGED << connSock, csock, released, cPc >>
    /\ UNCHANGED << prefix_size, lsock, pending, conn, addr, acc, regPc, wire, rpos,
                    mtu, sendVars, recvVars >>

\* TCPServer.close, first call: if self.conn: self.conn.close().  The peer of a
\* connection closed with unread bytes is reset
ServerClose ==
    /\ cPc = "idle"
    /\ IF conn # "None"
       THEN \E st \in CloseTo(connSock, InRecv("server")) :
                /\ connSock' = st
                /\ csock' = IF st = "closed" /\ connSock \in {"connected", "reset"}
                            THEN [csock EXCEPT ![conn] =
                                     PeerGone(@, Unread(<<conn, "up">>) # << >>)]
                            ELSE csock
                /\ released' = [released EXCEPT
                                   !["conn"] = @ + socket_close(connSock).rel]
       ELSE UNCHANGED << connSock, csock, released >>
    /\ cPc' = "sock"
    /\ ret' = Running
    /\ UNCHANGED << prefix_size, lsock, pending, conn, addr, acc, regPc, wire, rpos,
                    mtu, sendVars, recvVars >>

\* TCPServer.close, second call: self.sock.close().  The connections left in
\* the queue of a listener closed in the kernel are reset
ServerCloseSock ==
    /\ cPc = "sock"
    /\ \E st \in CloseTo(lsock, InAccept) :
           /\ lsock' = st
           /\ csock' = IF st = "closed" /\ lsock = "listening"
                       THEN [c \in Clients |->
                                PeerGone(csock[c], Queued(c, pending))]
                       ELSE csock
    /\ released' = [released EXCEPT !["lsock"] = @ + socket_close(lsock).rel]
    /\ ret' = Ended("close", "server", socket_close(lsock).err, lsock, "close")
    /\ cPc' = "idle"
    /\ UNCHANGED << prefix_size, pending, conn, addr, acc, connSock, regPc, wire, rpos,
                    mtu, sendVars, recvVars >>

\* TCPClient.close: self.sock.close().  The server's end of a connection closed
\* with unread bytes is reset
ClientClose(c) ==
    \E st \in CloseTo(csock[c], InRecv(c)) :
        /\ csock' = [csock EXCEPT ![c] = st]
        /\ connSock' = IF ServerEnd = c /\ st = "closed"
                          /\ csock[c] \in {"connected", "reset"}
                       THEN PeerGone(connSock, Unread(<<c, "down">>) # << >>)
                       ELSE connSock
        /\ released' = [released EXCEPT ![c] = @ + socket_close(csock[c]).rel]
        /\ ret' = Ended("close", c, socket_close(csock[c]).err, csock[c], "close")
        /\ UNCHANGED << prefix_size, lsock, pending, conn, addr, acc, regPc, cPc,
                        wire, rpos, mtu, sendVars, recvVars >>

(***************************************************************************)
(* send(data) and send_all(sock, prefix + data).                           *)
(***************************************************************************)
\* send: prefix = len(data).to_bytes(self.prefix_size, 'big'), which raises
\* OverflowError when the length does not fit; then send_all(sock, prefix + data)
\* starts with total_sent = 0
SendCall(t, data) ==
    /\ Idle(t)
    /\ nSends < MaxSends
    /\ nSends' = nSends + 1
    /\ IF Fits(Len(data), prefix_size[Owner(t)])
       THEN /\ sPc' = [sPc EXCEPT ![t] = "loop"]
            /\ sData' = [sData EXCEPT ![t] = Frame(data, prefix_size[Owner(t)])]
            /\ sMsg' = [sMsg EXCEPT ![t] = data]
            /\ total_sent' = [total_sent EXCEPT ![t] = 0]
            /\ ret' = Running
       ELSE /\ sMsg' = [sMsg EXCEPT ![t] = data]
            /\ ret' = Ended("send", t, "OverflowError", SockState(Owner(t)),
                            "to_bytes")
            /\ UNCHANGED << sPc, sData, total_sent >>
    /\ UNCHANGED << prefix_size, sockVars, wire, rpos, mtu, sentLog, recvVars >>

\* mutant: total_sent = sent instead of total_sent += sent
send_all_next_assign(total, length, sent) ==
    IF sent = 0
    THEN [pc |-> "idle", total |-> total, err |-> "RuntimeError"]
    ELSE [pc |-> IF sent < length THEN "loop" ELSE "idle",
          total |-> sent, err |-> "none"]

\* mutant: a write of zero bytes ends the loop without raising
send_all_next_ignore(total, length, sent) ==
    IF sent = 0
    THEN [pc |-> "idle", total |-> total, err |-> "none"]
    ELSE [pc |-> IF total + sent < length THEN "loop" ELSE "idle",
          total |-> total + sent, err |-> "none"]

\* the rest of one iteration of send_all's loop once sock.send returned `sent`:
\* raise on 0, else total_sent += sent and test total_sent < length
send_all_next(total, length, sent) ==
    IF sent = 0
    THEN [pc |-> "idle", total |-> total, err |-> "RuntimeError"]
    ELSE [pc |-> IF total + sent < length THEN "loop" ELSE "idle",
          total |-> total + sent, err |-> "none"]

\* the send raises exc out of sock.send
SendRaise(t, exc) ==
    /\ sPc' = [sPc EXCEPT ![t] = "idle"]
    /\ ret' = Ended("send", t, exc, SockState(Owner(t)), "loop")
    /\ UNCHANGED << wire, total_sent, sentLog >>

\* sock.send accepted the first `sent` bytes of the offered buffer (0: none)
SendAccepted(t, sent) ==
    LET e == Owner(t)
        offered == Remaining(sData[t], total_sent[t])
        nx == send_all_next(total_sent[t], Len(sData[t]), sent)
    IN  /\ wire' = [wire EXCEPT ![OutChan(e)] = @ \o SubSeq(offered, 1, sent)]
        /\ sPc' = [sPc EXCEPT ![t] = nx.pc]
        /\ total_sent' = [total_sent EXCEPT ![t] = nx.total]
        /\ ret' = IF nx.pc = "idle"
                  THEN Ended("send", t, nx.err, SockState(e), "loop")
                  ELSE Running
        /\ sentLog' = IF nx.pc = "idle" /\ nx.err = "none"
                      THEN [sentLog EXCEPT ![e] = Append(@, sMsg[t])]
                      ELSE sentLog

\* one iteration of send_all's loop: sent = sock.send(data[total_sent:]).  On a
\* reset connection the call raises the reset, once
SendStep(t) ==
    /\ sPc[t] = "loop"
    /\ LET e == Owner(t)
           st == SockState(e)
       IN  \/ /\ st = "none"          \* self.conn is None
              /\ SendRaise(t, "AttributeError")
              /\ UNCHANGED << connSock, csock >>
           \/ /\ st \in {"new", "closed", "closing"}
              /\ SendRaise(t, "OSError")
              /\ UNCHANGED << connSock, csock >>
           \/ /\ st = "reset"
              /\ SendRaise(t, "OSError")
              /\ SetSocks(e, "connected", PeerState(e))
           \/ /\ st = "connected"
              /\ \E sent \in 1..Min(Len(sData[t]) - total_sent[t], mtu) :
                     SendAccepted(t, sent)
              /\ UNCHANGED << connSock, csock >>
           \/ /\ st = "connected"
              /\ PeerClosed(e)
              /\ \/ SendAccepted(t, 0)
                 \/ SendRaise(t, "OSError")
              /\ UNCHANGED << connSock, csock >>
    /\ UNCHANGED << prefix_size, listenVars, rpos, mtu, sData, sMsg, nSends,
                    recvVars >>

(***************************************************************************)
(* recv() and recv_all(sock, size).                                        *)
(***************************************************************************)
\* mutant: a recv that reads its prefix with the width of the peer
RecvCall_peerwidth(e) ==
    /\ Idle(e)
    /\ rPc' = [rPc EXCEPT ![e] = "prefix"]
    /\ size' = [size EXCEPT ![e] = prefix_size[IF e = "server" THEN conn ELSE "server"]]
    /\ chunks' = [chunks EXCEPT ![e] = << >>]
    /\ ret' = Running
    /\ UNCHANGED << prefix_size, sockVars, wire, rpos, mtu, sendVars, recvLog >>

\* recv: raw_len = recv_all(sock, self.prefix_size) starts with no chunks
RecvCall(e) ==
    /\ Idle(e)
    /\ rPc' = [rPc EXCEPT ![e] = "prefix"]
    /\ size' = [size EXCEPT ![e] = prefix_size[e]]
    /\ chunks' = [chunks EXCEPT ![e] = << >>]
    /\ ret' = Running
    /\ UNCHANGED << prefix_size, sockVars, wire, rpos, mtu, sendVars, recvLog >>

\* mutant: chunks.insert(0, chunk) instead of chunks.append(chunk)
recv_all_next_prepend(chs, sz, chunk) ==
    IF chunk = << >>
    THEN [done |-> TRUE, buf |-> chs, err |-> "RuntimeError"]
    ELSE [done |-> ~(Len(chs) + Len(chunk) < sz), buf |-> chunk \o chs,
          err |-> "none"]

\* mutant: bytes_recd is never advanced, so the loop test stays true
recv_all_next_nocount(chs, sz, chunk) ==
    IF chunk = << >>
    THEN [done |-> TRUE, buf |-> chs, err |-> "RuntimeError"]
    ELSE [done |-> FALSE, buf |-> chs \o chunk, err |-> "none"]

\* the rest of one iteration of recv_all's loop once sock.recv returned `chunk`:
\* raise on an empty chunk, else append it and test bytes_recd < size
recv_all_next(chs, sz, chunk) ==
    IF chunk = << >>
    THEN [done |-> TRUE, buf |-> chs, err |-> "RuntimeError"]
    ELSE [done |-> ~(Len(chs) + Len(chunk) < sz), buf |-> chs \o chunk,
          err |-> "none"]

\* the recv raises exc out of sock.recv
RecvRaise(e, exc) ==
    /\ rPc' = [rPc EXCEPT ![e] = "idle"]
    /\ ret' = Ended("recv", e, exc, SockState(e), rPc[e])
    /\ chunks' = [chunks EXCEPT ![e] = << >>]
    /\ UNCHANGED << rpos, size, recvLog >>

\* sock.recv returned the next k unread bytes (0: the empty chunk of a closed peer).
\* A completed prefix is decoded and recv_all(sock, size) begins; it returns b""
\* at once when size is 0.  A completed payload is returned.
RecvChunk(e, k) ==
    LET ch == InChan(e)
        chunk == SubSeq(wire[ch], rpos[ch] + 1, rpos[ch] + k)
        nx == recv_all_next(chunks[e], size[e], chunk)
        n == from_bytes(nx.buf)
    IN  /\ rpos' = [rpos EXCEPT ![ch] = @ + k]
        /\ IF nx.err # "none"
           THEN /\ rPc' = [rPc EXCEPT ![e] = "idle"]
                /\ ret' = Ended("recv", e, nx.err, SockState(e), rPc[e])
                /\ chunks' = [chunks EXCEPT ![e] = << >>]
                /\ UNCHANGED << size, recvLog >>
           ELSE IF ~nx.done
           THEN /\ chunks' = [chunks EXCEPT ![e] = nx.buf]
                /\ ret' = Running
                /\ UNCHANGED << rPc, size, recvLog >>
           ELSE IF rPc[e] = "prefix" /\ n > 0
           THEN /\ rPc' = [rPc EXCEPT ![e] = "payload"]
                /\ size' = [size EXCEPT ![e] = n]
                /\ chunks' = [chunks EXCEPT ![e] = << >>]
                /\ ret' = Running
                /\ UNCHANGED recvLog
           ELSE /\ rPc' = [rPc EXCEPT ![e] = "idle"]
                /\ recvLog' = [recvLog EXCEPT ![e] =
                                  Append(@, IF rPc[e] = "prefix" THEN << >> ELSE nx.buf)]
                /\ chunks' = [chunks EXCEPT ![e] = << >>]
                /\ ret' = Ended("recv", e, "none", SockState(e), rPc[e])
                /\ UNCHANGED size

\* one iteration of recv_all's loop: chunk = sock.recv(min(size - bytes_recd, 2048)).
\* It waits while there is nothing to read on an open connection.  On a reset
\* connection it first gives what was received and then raises the reset, once.
\* A call that was waiting when its socket was closed still returns what comes,
\* and the socket is closed in the kernel as it returns
RecvStep(e) ==
    /\ rPc[e] \in {"prefix", "payload"}
    /\ LET st == SockState(e)
           ch == InChan(e)
           most == Min(Min(ReadRequest(size[e], Len(chunks[e])), Len(Unread(ch))), mtu)
       IN  \/ /\ st = "none"          \* self.conn is None
              /\ RecvRaise(e, "AttributeError")
              /\ UNCHANGED << connSock, csock >>
           \/ /\ st \in {"new", "closed"}
              /\ RecvRaise(e, "OSError")
              /\ UNCHANGED << connSock, csock >>
           \/ /\ st \in {"connected", "reset"}
              /\ \E k \in 1..most : RecvChunk(e, k)
              /\ UNCHANGED << connSock, csock >>
           \/ /\ st = "connected"
              /\ Unread(ch) = << >>
              /\ PeerClosed(e)
              /\ RecvChunk(e, 0)
              /\ UNCHANGED << connSock, csock >>
           \/ /\ st = "reset"
              /\ Unread(ch) = << >>
              /\ RecvRaise(e, "OSError")
              /\ SetSocks(e, "connected", PeerState(e))
           \/ /\ st = "closing"
              /\ \E k \in 1..most :
                     /\ RecvChunk(e, k)
                     /\ SetSocks(e, "closed",
                                 PeerGone(PeerState(e), Len(Unread(ch)) > k))
           \/ /\ st = "closing"
              /\ Unread(ch) = << >>
              /\ PeerClosed(e)
              /\ RecvChunk(e, 0)
              /\ SetSocks(e, "closed", PeerState(e))
    /\ UNCHANGED << prefix_size, listenVars, wire, mtu, sendVars >>

(***************************************************************************)
(* Inputs.                                                                 *)
(***************************************************************************)
\* the byte that names a sender in the payloads of Spec
Tag(t) == CASE t = "server" -> 83 [] t = "client" -> 67 [] OTHER -> 68
\* a transport that never caps a call: more than any buffer of the model
NoCap == 256 * 256

\* everything but the sockets, before any call
Quiet ==
    /\ released = [s \in Sockets |-> 0]
    /\ wire = [ch \in Channels |-> << >>]
    /\ rpos = [ch \in Channels |-> 0]
    /\ sPc = [t \in Threads |-> "idle"]
    /\ sData = [t \in Threads |-> << >>]
    /\ sMsg = [t \in Threads |-> << >>]
    /\ total_sent = [t \in Threads |-> 0]
    /\ rPc = [e \in Endpoints |-> "idle"]
    /\ size = [e \in Endpoints |-> 0]
    /\ chunks = [e \in Endpoints |-> << >>]
    /\ sentLog = [e \in Endpoints |-> << >>]
    /\ recvLog = [e \in Endpoints |-> << >>]
    /\ nSends = 0
    /\ ret = Running

\* "client" has connected and the server has accepted it
Established ==
    /\ lsock = "listening"
    /\ pending = << >>
    /\ conn = "client"
    /\ addr = "client"
    /\ acc = "None"
    /\ connSock = "connected"
    /\ csock = [c \in Clients |-> IF c = "client" THEN "connected" ELSE "new"]
    /\ regPc = "idle"
    /\ cPc = "idle"

(***************************************************************************)
(* Spec: the life of the objects.  A TCPServer and two TCPClients are      *)
(* constructed with the default prefix_size; each is driven by one thread  *)
(* and sends, once, a one-byte payload that names it.                      *)
(***************************************************************************)
Init ==
    /\ prefix_size = [e \in Endpoints |-> 1]
    /\ lsock = "new"
    /\ pending = << >>
    /\ conn = "None"
    /\ addr = "None"
    /\ acc = "None"
    /\ connSock = "none"
    /\ csock = [c \in Clients |-> "new"]
    /\ regPc = "idle"
    /\ cPc = "idle"
    /\ mtu = NoCap
    /\ Quiet

Next ==
    \/ \E ok \in BOOLEAN : ServerBind(ok)
    \/ ServerListen
    \/ ServerAccept
    \/ ServerStore
    \/ \E c \in Clients : ClientRegister(c)
    \/ Idle("server") /\ ServerClose
    \/ ServerCloseSock
    \/ \E c \in Clients : Idle(c) /\ ClientClose(c)
    \/ \E t \in Endpoints : sData[t] = << >> /\ SendCall(t, << Tag(t) >>)
    \/ \E t \in Endpoints : SendStep(t)
    \/ \E e \in Endpoints : RecvCall(e)
    \/ \E e \in Endpoints : RecvStep(e)

Spec == Init /\ [][Next]_vars

(***************************************************************************)
(* SpecBoot: the bootstrap of the server with a second thread that may     *)
(* call close() at any moment of register(), also while it waits in        *)
(* accept.  The objects start as in Spec; the clients connect and send,    *)
(* and the server sends and receives.                                      *)
(***************************************************************************)
NextBoot ==
    \/ \E ok \in BOOLEAN : ServerBind(ok)
    \/ ServerListen
    \/ ServerAccept
    \/ ServerStore
    \/ \E c \in Clients : ClientRegister(c)
    \/ sPc["server"] = "idle" /\ rPc["server"] = "idle" /\ ServerClose
    \/ ServerCloseSock
    \/ \E t \in Endpoints : sData[t] = << >> /\ SendCall(t, << Tag(t) >>)
    \/ \E t \in Endpoints : SendStep(t)
    \/ RecvCall("server")
    \/ RecvStep("server")

SpecBoot == Init /\ [][NextBoot]_vars

(***************************************************************************)
(* SpecRT: one established channel whose peers were built with the same    *)
(* prefix_size, any of 1..8, and stay open.                                *)
(***************************************************************************)
Peers == {"server", "client"}

InitRT ==
    /\ \E w \in Widths : prefix_size = [e \in Endpoints |-> w]
    /\ Established
    /\ mtu = NoCap
    /\ Quiet

NextRT ==
    \/ \E t \in Peers, data \in Msgs : SendCall(t, data)
    \/ \E t \in Peers : SendStep(t)
    \/ \E e \in Peers : RecvCall(e)
    \/ \E e \in Peers : RecvStep(e)

SpecRT == InitRT /\ [][NextRT]_vars

(***************************************************************************)
(* SpecChan: one established channel that may be closed at any moment, on  *)
(* either side, also while a call of another thread is using it; close()   *)
(* is called once on each side at most.  In each run one of the two peers  *)
(* is the sender, and it receives nothing once it has sent.                *)
(***************************************************************************)
ChanWidths == {1, 2}

\* no peer other than t has called send
OnlySender(t) == \A u \in Peers \ {t} : sData[u] = << >>

InitChan ==
    /\ \E w \in ChanWidths : prefix_size = [e \in Endpoints |-> w]
    /\ Established
    /\ mtu = NoCap
    /\ Quiet

NextChan ==
    \/ \E t \in Peers, data \in Msgs : OnlySender(t) /\ SendCall(t, data)
    \/ \E t \in Peers : SendStep(t)
    \/ \E e \in Peers : sData[e] = << >> /\ RecvCall(e)
    \/ \E e \in Peers : RecvStep(e)
    \/ lsock = "listening" /\ ServerClose
    \/ ServerCloseSock
    \/ csock["client"] \notin {"closing", "closed"} /\ ClientClose("client")

SpecChan == InitChan /\ [][NextChan]_vars

(***************************************************************************)
(* SpecReset: one established channel with traffic both ways.  The client  *)
(* sends a message the server never reads and receives what the server     *)
(* sends; the server may be closed at any moment, also in the middle of a  *)
(* send of another thread.                                                 *)
(***************************************************************************)
NextReset ==
    \/ sData["client"] = << >> /\ SendCall("client", << Tag("client") >>)
    \/ \E data \in Msgs : SendCall("server", data)
    \/ \E t \in Peers : SendStep(t)
    \/ RecvCall("client")
    \/ RecvStep("client")
    \/ ServerClose
    \/ ServerCloseSock

SpecReset == InitChan /\ [][NextReset]_vars

(***************************************************************************)
(* SpecSend: the sending side of one established channel, with payloads    *)
(* around the largest length a one-byte prefix can carry.  In each run one *)
(* of the two peers is the sender.                                         *)
(***************************************************************************)
SendLens == {0, 5, 255, 256, 257}
SendMsgs == {Sample(n) : n \in SendLens}

InitSend ==
    /\ \E w \in Widths : prefix_size = [e \in Endpoints |-> w]
    /\ Established
    /\ mtu \in {1, 2}
    /\ Quiet

NextSend ==
    \/ \E t \in Peers, data \in SendMsgs : OnlySender(t) /\ SendCall(t, data)
    \/ \E t \in Peers : SendStep(t)

SpecSend == InitSend /\ [][NextSend]_vars

(***************************************************************************)
(* SpecConc: two threads, "client" and "clientB", call send on the same    *)
(* TCPClient with no lock between them, and the server receives.  The      *)
(* objects use the default prefix_size.                                    *)
(***************************************************************************)
ClientThreads == {"client", "clientB"}

InitConc ==
    /\ prefix_size = [e \in Endpoints |-> 1]
    /\ Established
    /\ mtu = NoCap
    /\ Quiet

NextConc ==
    \/ \E t \in ClientThreads, data \in Msgs : SendCall(t, data)
    \/ \E t \in ClientThreads : SendStep(t)
    \/ RecvCall("server")
    \/ RecvStep("server")

SpecConc == InitConc /\ [][NextConc]_vars

(***************************************************************************)
(* SpecRead: with a two-byte prefix, the client sends payloads around      *)
(* recv_all's chunk of 2048 bytes and the server receives them.  Each      *)
(* sock.send accepts the whole buffer, and each sock.recv delivers either  *)
(* all it was asked for and can give, or one byte less than a full chunk.  *)
(***************************************************************************)
ReadLens == {0, 2048, 2049, 4097}
ReadMsgs == {Sample(n) : n \in ReadLens}
ShortRead == 2048 - 1

\* the number of bytes sock.recv took from the stream ch in this step
Delivered(ch) == rpos'[ch] - rpos[ch]

InitRead ==
    /\ prefix_size = [e \in Endpoints |-> 2]
    /\ Established
    /\ mtu = NoCap
    /\ Quiet

NextRead ==
    \/ \E data \in ReadMsgs : SendCall("client", data)
    \/ SendStep("client") /\ sPc'["client"] = "idle"
    \/ RecvCall("server")
    \/ /\ RecvStep("server")
       /\ Delivered(InChan("server")) \in
              { Min(ReadRequest(size["server"], Len(chunks["server"])),
                    Len(Unread(InChan("server")))),
                ShortRead }

SpecRead == InitRead /\ [][NextRead]_vars

(***************************************************************************)
(* SpecMis: one established channel whose client and server were built     *)
(* with different prefix_size; the client sends and the server receives.   *)
(***************************************************************************)
MisWidths == {1, 2, 3}

InitMis ==
    /\ \E ws \in MisWidths, wr \in MisWidths :
           /\ ws # wr
           /\ prefix_size = [e \in Endpoints |-> IF e = "server" THEN wr ELSE ws]
    /\ Established
    /\ mtu = NoCap
    /\ Quiet

NextMis ==
    \/ \E data \in Msgs : SendCall("client", data)
    \/ SendStep("client")
    \/ RecvCall("server")
    \/ RecvStep("server")

SpecMis == InitMis /\ [][NextMis]_vars

(***************************************************************************)
(* SpecLive: the client sends, the server receives, and the client's       *)
(* socket may be closed at any moment.  A blocked sock.send or sock.recv   *)
(* is a thread of its own waiting on the transport: a fair transport       *)
(* eventually lets the call that can proceed do so, which is weak fairness *)
(* of the loop iterations.                                                 *)
(***************************************************************************)
InitLive ==
    /\ prefix_size = [e \in Endpoints |-> 1]
    /\ Established
    /\ mtu = NoCap
    /\ Quiet

NextLive ==
    \/ \E data \in Msgs : SendCall("client", data)
    \/ SendStep("client")
    \/ RecvCall("server")
    \/ RecvStep("server")
    \/ ClientClose("client")

SpecLive ==
    /\ InitLive
    /\ [][NextLive]_vars
    /\ WF_vars(SendStep("client"))
    /\ WF_vars(RecvStep("server"))

(***************************************************************************)
(* Properties.                                                             *)
(***************************************************************************)
Peer(e) == IF e = "server" THEN "client" ELSE "server"
IsPrefix(a, b) == Len(a) <= Len(b) /\ a = SubSeq(b, 1, Len(a))
Last(q) == q[Len(q)]
\* the n bytes of q that end at position p
Before(q, p, n) == SubSeq(q, p - n + 1, p)

\* C1 (round trip): on an open channel whose peers use the same prefix width,
\* any of 1..8, a recv that returns hands back exactly the data of the peer's
\* matching send, byte for byte, in both directions.
C1_RoundTrip ==
    \A e \in Peers :
        (ret.op = "recv" /\ ret.who = e /\ ret.exc = "none") =>
            /\ Len(recvLog[e]) <= Len(sentLog[Peer(e)])
            /\ Last(recvLog[e]) = sentLog[Peer(e)][Len(recvLog[e])]

C1_Witness ==
    /\ prefix_size["server"] = 8
    /\ ret.op = "recv" /\ ret.who = "client" /\ ret.exc = "none"
    /\ recvLog["client"] = << Sample(2) >>
    /\ recvLog["server"] = << Sample(1) >>

\* C2 (ordering): with one sender on a channel, the buffers returned by the
\* peer's successive recv calls are the sent messages in the order sent: none is
\* skipped, repeated, merged with another or split, however the reads and writes
\* were fragmented and whenever the channel is closed.
C2_Ordering ==
    \A e \in Peers : IsPrefix(recvLog[e], sentLog[Peer(e)])

C2_Witness ==
    /\ Len(recvLog["server"]) = 2
    /\ recvLog["server"][1] # recvLog["server"][2]
    /\ prefix_size["server"] = 2

\* C4 (partial I/O): whatever positive number of bytes each sock.send accepts and
\* each sock.recv delivers, the bytes send_all has had accepted are the first
\* total_sent bytes of its buffer, contiguous and in order at the end of the
\* stream, and it returns only when all of them are; the bytes recv_all holds are
\* the last bytes taken from the stream, in order, and it returns exactly size
\* of them.
C4_PartialIO ==
    \A e \in Peers :
        /\ total_sent[e] <= Len(wire[OutChan(e)])
        /\ Before(wire[OutChan(e)], Len(wire[OutChan(e)]), total_sent[e])
               = SubSeq(sData[e], 1, total_sent[e])
        /\ (ret.op = "send" /\ ret.who = e /\ ret.exc = "none")
               => total_sent[e] = Len(sData[e])
        /\ rPc[e] # "idle" =>
               /\ Len(chunks[e]) < size[e]
               /\ chunks[e] = Before(wire[InChan(e)], rpos[InChan(e)], Len(chunks[e]))
        /\ (ret.op = "recv" /\ ret.who = e /\ ret.exc = "none") =>
               LET b == Last(recvLog[e])
                   p == rpos[InChan(e)]
               IN  /\ b = Before(wire[InChan(e)], p, Len(b))
                   /\ Len(b) = from_bytes(Before(wire[InChan(e)], p - Len(b),
                                                 prefix_size[e]))

C4_Witness ==
    /\ sPc["client"] = "loop" /\ total_sent["client"] = 1
    /\ Len(sentLog["client"]) = 1
    /\ rPc["server"] = "payload" /\ size["server"] = 2 /\ Len(chunks["server"]) = 1

\* C5 (broken connection on receive): when recv has the whole prefix, is short of
\* payload bytes, nothing is left to read and the peer has closed, the next read
\* makes recv raise RuntimeError (the connection is broken): the call ends there,
\* returns no buffer and takes nothing more from the stream; and that read is
\* not blocked.
BrokenRecv(e) ==
    /\ rPc[e] = "payload"
    /\ SockState(e) \in {"connected", "reset"}
    /\ Unread(InChan(e)) = << >>
    /\ PeerClosed(e)

C5_BrokenRecv ==
    /\ [](\A e \in Peers : BrokenRecv(e) => ENABLED RecvStep(e))
    /\ [][\A e \in Peers :
            (BrokenRecv(e) /\ (rPc'[e] # rPc[e] \/ chunks'[e] # chunks[e]
                               \/ recvLog'[e] # recvLog[e] \/ rpos' # rpos)) =>
                /\ ret'.op = "recv" /\ ret'.who = e /\ ret'.at = "payload"
                /\ ret'.exc = "RuntimeError"
                /\ rPc'[e] = "idle"
                /\ recvLog' = recvLog
                /\ rpos' = rpos]_vars

\* C6 (channel states): close() takes the channel's socket from connected to
\* closed, and it is closed when close() returns; once closed it stays closed
\* whatever is called; and a send or recv
\* on a closed channel raises OSError out of the socket (the code's form of a
\* closed-channel error) with nothing written to and nothing read from the stream.
C6_ClosedIsTerminal ==
    /\ []((ret.op \in {"send", "recv"} /\ ret.sock = "closed")
              => ret.exc = "OSError")
    /\ [][\A e \in Endpoints :
            /\ (/\ SockState(e) \in {"connected", "reset"}
                /\ IF e = "server" THEN cPc = "idle" /\ cPc' = "sock"
                   ELSE ret'.op = "close" /\ ret'.who = e)
                   => SockState(e)' = "closed"
            /\ (ret'.op = "close" /\ ret'.who = e)
                   => SockState(e)' \in {"none", "closed"}
            /\ SockState(e) = "closed" =>
                   /\ SockState(e)' = "closed"
                   /\ wire'[OutChan(e)] = wire[OutChan(e)]
                   /\ rpos'[InChan(e)] = rpos[InChan(e)]]_vars

C6_Witness ==
    /\ ret = Ended("send", "server", "OSError", "closed", "loop")
    /\ recvLog["server"] # << >>
    /\ csock["client"] = "closed"

\* C7 (close again): a close() on an object that was already closed raises
\* nothing and leaves its sockets closed, and no socket's descriptor is ever
\* released more than once.
C7_CloseAgain ==
    /\ \A s \in Sockets : released[s] <= 1
    /\ (ret.op = "close" /\ ret.sock = "closed") =>
           /\ ret.exc = "none"
           /\ IF ret.who = "server"
              THEN lsock = "closed" /\ connSock \in {"none", "closed"}
              ELSE csock[ret.who] = "closed"

C7_Witness ==
    /\ ret = Ended("close", "server", "none", "closed", "close")
    /\ conn = "client"
    /\ released = [s \in Sockets |-> IF s = "client2" THEN 0 ELSE 1]

\* C8 (single connection): once register() has accepted a peer, conn and addr
\* name that peer for good; another connector is refused or stays in the
\* listener's queue, the server reads nothing from its connection, and no byte it
\* sent is in any buffer the server's recv returned.
Bytes(q) == {q[i] : i \in DOMAIN q}

C8_SingleConnection ==
    /\ [](\A c \in Clients : c # conn =>
             /\ rpos[<<c, "up">>] = 0
             /\ \A i \in DOMAIN recvLog["server"] :
                    Tag(c) \notin Bytes(recvLog["server"][i])
             /\ (conn # "None" /\ csock[c] = "connected") =>
                    \E i \in DOMAIN pending : pending[i] = c)
    /\ [][conn # "None" => (conn' = conn /\ addr' = addr)]_vars

C8_Witness ==
    /\ conn = "client"
    /\ pending = << "client2" >>
    /\ wire[<<"client2", "up">>] = << 1, Tag("client2") >>
    /\ recvLog["server"] = << << Tag("client") >> >>

\* C3 (boundary): a send whose data is 256^W bytes long or longer raises
\* OverflowError out of to_bytes (the code's form of a too-large error) before
\* send_all is entered: no byte is added to any stream and no send is left
\* running; and OverflowError is raised for no shorter data.
RECURSIVE Pow256(_)
Pow256(w) == IF w = 0 THEN 1 ELSE 256 * Pow256(w - 1)
\* n >= 256^w, for the n < 256^4 of the model
TooLarge(n, w) == w < 4 /\ n >= Pow256(w)

C3_Boundary ==
    /\ [](ret.exc = "OverflowError" =>
             TooLarge(Len(sMsg[ret.who]), prefix_size[ret.who]))
    /\ [][\A t \in Peers :
            (/\ nSends' # nSends
             /\ sMsg'[t] # sMsg[t] \/ sPc'[t] # sPc[t] \/ ret'.who = t
             /\ TooLarge(Len(sMsg'[t]), prefix_size[t])) =>
                /\ ret' = Ended("send", t, "OverflowError", "connected", "to_bytes")
                /\ wire' = wire
                /\ sPc'[t] = "idle"
                /\ sentLog' = sentLog]_vars

C3_Witness ==
    /\ ret = Ended("send", "client", "OverflowError", "connected", "to_bytes")
    /\ Len(sMsg["client"]) = 256
    /\ prefix_size["client"] = 1
    /\ sentLog["client"] = << Sample(255) >>
    /\ wire[<<"client", "up">>] = << 255 >> \o Sample(255)

\* C9 (wire format): the buffer a send gives to send_all, in one call, is the
\* prefix followed by the data: W bytes, each in 0..255, whose value read most
\* significant byte first is len(data), then the data unchanged; and when the
\* send returns these are the last bytes of the stream.  With W = 1 the data
\* 1,2,3,4,5 goes out as 5,1,2,3,4,5.
RECURSIVE BigEndianValue(_)
BigEndianValue(q) ==
    IF q = << >> THEN 0
    ELSE LET hi == BigEndianValue(SubSeq(q, 1, Len(q) - 1))
         IN  IF hi >= Beyond \div 256 THEN Beyond ELSE 256 * hi + q[Len(q)]

C9_WireFormat ==
    \A t \in Peers :
        LET w == prefix_size[t]
            sent == ret.op = "send" /\ ret.who = t /\ ret.exc = "none"
        IN  /\ (sPc[t] = "loop" \/ sent) =>
                /\ Len(sData[t]) = w + Len(sMsg[t])
                /\ \A i \in 1..w : sData[t][i] \in 0..255
                /\ BigEndianValue(SubSeq(sData[t], 1, w)) = Len(sMsg[t])
                /\ SubSeq(sData[t], w + 1, Len(sData[t])) = sMsg[t]
                /\ (w = 1 /\ sMsg[t] = << 1, 2, 3, 4, 5 >>)
                       => sData[t] = << 5, 1, 2, 3, 4, 5 >>
            /\ sent => Before(wire[OutChan(t)], Len(wire[OutChan(t)]),
                              Len(sData[t])) = sData[t]

C9_Witness ==
    /\ ret = Ended("send", "server", "none", "connected", "loop")
    /\ prefix_size["server"] = 2
    /\ wire[<<"client", "down">>] = << 0, 5, 1, 2, 3, 4, 5, 1, 0 >> \o Sample(256)

\* C10 (concurrent senders): as long as only one thread has called send on the
\* channel, the stream is the frames of the sent messages one after another,
\* followed by the accepted part of the frame being sent, and the peer's recv
\* returns those messages in order.  With a second sending thread the partial
\* writes of two send_all loops can interleave, and recv then returns a buffer
\* that is none of the sent messages (the witness).
RECURSIVE Frames1(_)
\* the frames of the messages q under a one-byte prefix
Frames1(q) == IF q = << >> THEN << >>
              ELSE << Len(Head(q)) >> \o Head(q) \o Frames1(Tail(q))

C10_SingleSenderFraming ==
    sData["clientB"] = << >> =>
        /\ wire[<<"client", "up">>] =
               Frames1(sentLog["client"]) \o
               (IF sPc["client"] = "loop"
                THEN SubSeq(sData["client"], 1, total_sent["client"]) ELSE << >>)
        /\ IsPrefix(recvLog["server"], sentLog["client"])

C10_Witness ==
    /\ sentLog["client"] = << Sample(1), Sample(2) >>
    /\ sMsg["client"] = Sample(2) /\ sMsg["clientB"] = Sample(1)
    /\ wire[<<"client", "up">>] = << 2, 1, 1, 1, 2 >>
    /\ recvLog["server"] = << << 1, 1 >> >>

\* C11 (broken connection on send): when a sock.send of send_all accepts zero
\* bytes while unsent bytes remain, the send ends in that step with RuntimeError
\* (the connection is broken): total_sent is left short of the length, nothing is
\* added to the stream or to the sent messages, no further write of that call can
\* happen; and a send returns without error only with total_sent = len(data).
C11_BrokenSend ==
    /\ [](\A t \in Peers :
             /\ (ret.op = "send" /\ ret.who = t /\ ret.exc = "none")
                    => total_sent[t] = Len(sData[t])
             /\ (ret.op = "send" /\ ret.who = t /\ ret.exc = "RuntimeError") =>
                    /\ total_sent[t] < Len(sData[t])
                    /\ ~ENABLED SendStep(t))
    /\ [][\A t \in Peers :
            (/\ sPc[t] = "loop" /\ sPc'[t] = "idle"
             /\ wire' = wire
             /\ ret'.exc \notin {"OSError", "AttributeError"}) =>
                /\ ret' = Ended("send", t, "RuntimeError", "connected", "loop")
                /\ total_sent'[t] = total_sent[t]
                /\ sentLog' = sentLog]_vars

C11_Witness ==
    /\ ret = Ended("send", "client", "RuntimeError", "connected", "loop")
    /\ Len(sData["client"]) = 3 /\ total_sent["client"] = 1
    /\ connSock = "closed"
    /\ sentLog["client"] = << >>

\* C12 (bounded read requests): whenever recv_all is about to read, the number of
\* bytes it asks sock.recv for is at least 1, at most 2048 and at most the
\* number still missing; and no read takes more than that from the stream.
C12_BoundedReads ==
    /\ [](rPc["server"] # "idle" =>
             LET r == ReadRequest(size["server"], Len(chunks["server"]))
             IN  /\ 1 <= r
                 /\ r <= 2048
                 /\ r <= size["server"] - Len(chunks["server"])
                 /\ r = 2048 \/ r = size["server"] - Len(chunks["server"]))
    /\ [][Delivered(<<"client", "up">>) > 0 =>
            /\ rPc["server"] # "idle"
            /\ Delivered(<<"client", "up">>) <= 2048
            /\ Delivered(<<"client", "up">>)
                   <= size["server"] - Len(chunks["server"])]_vars

C12_Witness ==
    /\ rPc["server"] = "payload"
    /\ size["server"] = 4097
    /\ Len(chunks["server"]) = 2048 + ShortRead
    /\ ReadRequest(size["server"], Len(chunks["server"])) = 2

\* the messages p has given to send so far, the one being written included
Offered(p) == sentLog[p] \o (IF sPc[p] = "loop" THEN << sMsg[p] >> ELSE << >>)

RECURSIVE FrameEnd(_, _, _)
\* the position in the stream where the j-th frame of the messages q ends, for
\* a sender of prefix width w
FrameEnd(q, w, j) == IF j = 0 THEN 0 ELSE FrameEnd(q, w, j - 1) + w + Len(q[j])

\* C13 as stated (prefix-width mismatch): no call raises, and a recv that returns
\* hands back a buffer different from the matching sent message and leaves the
\* read position at the end of no frame.
C13_Original ==
    /\ ret.exc = "none"
    /\ (ret.op = "recv" /\ ret.exc = "none") =>
           LET sent == Offered("client")
               k == Len(recvLog["server"])
           IN  /\ k <= Len(sent) => Last(recvLog["server"]) # sent[k]
               /\ \A j \in 0..Len(sent) :
                      rpos[<<"client", "up">>]
                          # FrameEnd(sent, prefix_size["client"], j)

\* C13 (prefix-width mismatch, amended): with a sender of width Ws and a
\* receiver of width Wr # Ws no call raises.  The first recv that returns has
\* taken the first Wr bytes of the stream as its prefix and the n bytes after
\* them, n being the big-endian value of those Wr bytes, as its buffer; Wr + n is
\* never the length Ws + len(m) of the frame of the first message m, so the
\* receiver is off the sender's framing from then on; and the buffer differs
\* from m unless m is empty.
C13_Mismatch ==
    /\ ret.exc = "none"
    /\ (ret.op = "recv" /\ ret.exc = "none" /\ Len(recvLog["server"]) = 1) =>
           LET b == recvLog["server"][1]
               m == Offered("client")[1]
               p == rpos[<<"client", "up">>]
               s == wire[<<"client", "up">>]
               wr == prefix_size["server"]
           IN  /\ p = wr + Len(b)
               /\ Len(b) = BigEndianValue(SubSeq(s, 1, wr))
               /\ b = SubSeq(s, wr + 1, p)
               /\ p # FrameEnd(Offered("client"), prefix_size["client"], 1)
               /\ m # << >> => b # m

C13_Witness ==
    /\ ret = Ended("recv", "server", "none", "connected", "payload")
    /\ prefix_size["client"] = 1 /\ prefix_size["server"] = 2
    /\ sentLog["client"] = << << >>, << 1 >> >>
    /\ recvLog["server"] = << << 1 >> >>
    /\ rpos[<<"client", "up">>] = 3

\* C14 (single-shot listener): once register() has accepted a peer, a further
\* register() on the same TCPServer ends at once, raising OSError out of bind: it
\* never waits in accept again and takes no connection from the listener's queue,
\* and conn and addr keep the peer accepted first.
C14_SingleShot ==
    /\ [](conn # "None" => regPc = "idle")
    /\ [][(conn # "None" /\ ret'.op = "register" /\ ret'.who = "server"
            /\ ret' # ret) =>
              /\ ret' = Ended("register", "server", "OSError", lsock, "bind")
              /\ conn' = conn /\ addr' = addr /\ connSock' = connSock
              /\ pending' = pending
              /\ lsock' = lsock]_vars

C14_Witness ==
    /\ ret = Ended("register", "server", "OSError", "listening", "bind")
    /\ conn = "client" /\ addr = "client"
    /\ pending = << "client2" >>
    /\ connSock = "connected"

\* C15 (no socket leak on a failed bootstrap): when a register() on a fresh
\* socket fails, that socket has been closed and its descriptor released, once,
\* by the time the caller sees the error.
C15_NoLeak ==
    (ret.op = "register" /\ ret.exc # "none" /\ ret.sock = "new") =>
        IF ret.who = "server"
        THEN lsock = "closed" /\ released["lsock"] = 1
        ELSE csock[ret.who] = "closed" /\ released[ret.who] = 1

\* C16 (frame alignment): with equal prefix widths W and one sender and one
\* receiver per direction, a recv that returns has consumed exactly W + n bytes
\* since the frame boundary it started at, n being the value of the prefix and the
\* length of the buffer returned; between recv calls the read position is the
\* end of the frame of the last message returned; and a running recv has read
\* no byte beyond the frame it is reading.
C16_FrameAlignment ==
    \A e \in Peers :
        LET w == prefix_size[e]
            q == Offered(Peer(e))
            k == Len(recvLog[e])
            pos == rpos[InChan(e)]
        IN  /\ rPc[e] = "idle" => pos = FrameEnd(q, w, k)
            /\ rPc[e] # "idle" =>
                   \/ pos = FrameEnd(q, w, k)
                   \/ /\ k < Len(q)
                      /\ FrameEnd(q, w, k) < pos
                      /\ pos < FrameEnd(q, w, k + 1)
            /\ (ret.op = "recv" /\ ret.who = e /\ ret.exc = "none") =>
                   LET n == Len(Last(recvLog[e]))
                       from == FrameEnd(q, w, k - 1)
                   IN  /\ pos = from + w + n
                       /\ n = BigEndianValue(SubSeq(wire[InChan(e)], from + 1, from + w))

C16_Witness ==
    /\ ret = Ended("recv", "server", "none", "connected", "payload")
    /\ prefix_size["server"] = 3
    /\ sentLog["client"] = << Sample(2), Sample(1) >>
    /\ recvLog["server"] = << Sample(2) >>
    /\ rpos[<<"client", "up">>] = 5
    /\ Len(wire[<<"client", "up">>]) = 9

\* C17 (empty message): send(b"") gives send_all exactly W zero bytes; a recv
\* whose prefix is W zero bytes returns the empty buffer in the very step that
\* completes the prefix, so it issues no payload read, waits for nothing more and
\* returns also when the peer has closed right after the prefix; and recv never
\* enters its payload read with size 0.
Zeros(w) == [i \in 1..w |-> 0]

C17_EmptyMessage ==
    /\ [](\A e \in Peers :
             /\ ((sPc[e] = "loop"
                     \/ (ret.op = "send" /\ ret.who = e /\ ret.exc = "none"))
                  /\ sMsg[e] = << >>) =>
                    sData[e] = Zeros(prefix_size[e])
             /\ rPc[e] = "payload" => size[e] >= 1
             /\ (ret.op = "recv" /\ ret.who = e /\ ret.exc = "none"
                  /\ Last(recvLog[e]) = << >>) =>
                    /\ ret.at = "prefix"
                    /\ Before(wire[InChan(e)], rpos[InChan(e)], prefix_size[e])
                           = Zeros(prefix_size[e]))
    /\ [][\A e \in Peers :
            (/\ rPc[e] = "prefix"
             /\ Delivered(InChan(e)) = prefix_size[e] - Len(chunks[e])
             /\ Before(wire[InChan(e)], rpos'[InChan(e)], prefix_size[e])
                    = Zeros(prefix_size[e])) =>
                /\ ret'.op = "recv" /\ ret'.who = e /\ ret'.exc = "none"
                /\ ret'.at = "prefix"
                /\ rPc'[e] = "idle"
                /\ recvLog'[e] = Append(recvLog[e], << >>)]_vars

C17_Witness ==
    /\ ret = Ended("recv", "server", "none", "connected", "prefix")
    /\ prefix_size["server"] = 2
    /\ csock["client"] = "closed"
    /\ wire[<<"client", "up">>] = << 0, 0 >>
    /\ recvLog["server"] = << << >> >>

\* C18 (progress): every iteration of send_all's loop that moves bytes advances
\* total_sent by the number moved, without passing len(data), and every iteration
\* of recv_all's loop that stays in the loop advances bytes_recd by the length of
\* the chunk, staying short of size.  So, under a fair transport, every send
\* ends; a recv waiting while the peer has closed, or while a message it has not
\* returned is fully sent, ends by returning or with RuntimeError; and a receiver
\* that is waiting with k messages returned, when more than k are fully sent,
\* comes to return one more.
C18_Progress ==
    /\ [][/\ (sPc["client"] = "loop" /\ wire' # wire) =>
               /\ total_sent'["client"] = total_sent["client"]
                      + Len(wire'[<<"client", "up">>]) - Len(wire[<<"client", "up">>])
               /\ total_sent'["client"] > total_sent["client"]
               /\ total_sent'["client"] <= Len(sData["client"])
          /\ (rPc["server"] # "idle" /\ rPc'["server"] = rPc["server"]
              /\ rpos' # rpos) =>
               /\ Len(chunks'["server"])
                      = Len(chunks["server"]) + Delivered(<<"client", "up">>)
               /\ Len(chunks'["server"]) > Len(chunks["server"])
               /\ Len(chunks'["server"]) < size["server"]]_vars
    /\ (sPc["client"] = "loop") ~> (sPc["client"] = "idle")
    /\ (/\ rPc["server"] # "idle"
        /\ \/ csock["client"] = "closed"
           \/ Len(sentLog["client"]) > Len(recvLog["server"]))
           ~> (ret.op = "recv" /\ ret.exc \in {"none", "RuntimeError"})
    /\ \A k \in 0..MaxSends :
           (/\ rPc["server"] # "idle"
            /\ Len(recvLog["server"]) = k
            /\ Len(sentLog["client"]) > k)
               ~> (Len(recvLog["server"]) > k)

C18_Witness ==
    /\ ret = Ended("recv", "server", "none", "connected", "payload")
    /\ recvLog["server"] = << Sample(1), Sample(2) >>
    /\ csock["client"] = "closed"

\* C19 (no channel before bootstrap): while no register() of the TCPServer has
\* completed, also while one is under way, conn is unset; a send or recv on it
\* ends with AttributeError (conn is None) and no byte is added to or taken from
\* any stream by its steps; and close() raises nothing, closes the listening
\* socket, once, and no other socket: only the connections left in the queue
\* of the listener feel it.
C19_NoChannel ==
    /\ []((connSock = "none" \/ regPc # "idle") => conn = "None")
    /\ []((conn = "None" /\ ret.who = "server" /\ ret.op \in {"send", "recv"})
              => ret.exc = "AttributeError")
    /\ [][(conn = "None" /\ conn' = "None" /\ ret'.who = "server" /\ ret' # ret) =>
              /\ wire' = wire /\ rpos' = rpos
              /\ connSock' = connSock
              /\ \A c \in Clients : ~Queued(c, pending) => csock'[c] = csock[c]
              /\ sentLog' = sentLog /\ recvLog' = recvLog
              /\ ret'.op = "close" =>
                     /\ ret'.exc = "none"
                     /\ lsock' \in {"closed", "closing"}
                     /\ released' = [released EXCEPT !["lsock"] =
                                        IF lsock \in {"closed", "closing"}
                                        THEN @ ELSE @ + 1]]_vars

C19_Witness ==
    /\ ret = Ended("close", "server", "none", "listening", "close")
    /\ conn = "None"
    /\ regPc = "accept"
    /\ lsock = "closing"
    /\ sMsg["server"] = << Tag("server") >>
    /\ sentLog["server"] = << >>
    /\ released = [s \in Sockets |-> IF s = "lsock" THEN 1 ELSE 0]

====
